---- MODULE Spec2Model ----
(***************************************************************************)
(* The capture / evaluate / notify loop of src/monitor.py                  *)
(* (CameraMonitor.run and the methods it calls), with the configuration    *)
(* of src/config.py.  Time is counted in seconds since process start; one  *)
(* action models one statement of run at the position held in pc.          *)
(***************************************************************************)
EXTENDS Integers, Sequences, FiniteSets, TLC

\* ---------------------------------------------------------------- config.py
\* Environment-bound integers; the model runs a one-minute notification
\* interval so that several windows fit in the explored time.
DISCORD_INTERVAL_MINUTES == 1
CAPTURE_INTERVAL_SECONDS == 30
REQUEST_TIMEOUT == 5
FAILURE_THRESHOLD == 3

\* datetime.datetime.min, on the model's time axis: far before process start.
DatetimeMin == -1000000000

\* ---------------------------------------------------------------- bounds
\* No new cycle starts once the clock has passed MaxTime.
MaxTime == 120
\* Largest number of boxes the detection model returns for one frame.
MaxBoxes == 2
\* Longest time one inference takes (inference has no timeout).
MaxInference == 30

\* ---------------------------------------------------------------- data
\* class id 0 is "person" (process_image, line 105); 1 stands for any other.
PERSON == 0
Classes == {0, 1}

\* What self.model(image) may return: one class id per box.
ResultSets == UNION {[1..n -> Classes] : n \in 0..MaxBoxes}

\* A frame: valid = FALSE is Python's None; overlays is the set of boxes
\* (indices into the detection result) drawn onto the pixel buffer.
NoneImage == [valid |-> FALSE, overlays |-> {}]
RawImage == [valid |-> TRUE, overlays |-> {}]

FetchOutcomes == {"ok", "http_error", "undecodable"}
CaptureDurations == {0, REQUEST_TIMEOUT}
InferenceDurations == {0, MaxInference}

VARIABLES
    pc,                 \* position in run
    clock,              \* wall clock (datetime.datetime.now())
    now,                \* run's local now (line 148)
    image,              \* run's local image; processed_image is the same object
    status,             \* run's local status
    msg,                \* run's local msg
    results,            \* last value returned by self.model(image)
    person_found,       \* run's local person_found
    last_discord_send,  \* self.last_discord_send
    kumaConfigured,     \* bool(KUMA_URL)
    discordConfigured,  \* bool(DISCORD_WEBHOOK_URL)
    disk,               \* overlays carried by the files written this cycle
    payload,            \* overlays carried by the images posted this cycle
    sendOutcome,        \* what the last send_discord_image call did
    events,             \* what the current cycle has done so far, in order
    failRun,            \* history: failed captures since the last success or "down"
    runAtHeartbeat,     \* history: failRun when the last heartbeat was emitted
    sendClock,          \* history: wall clock of the two most recent sends
    sendNow,            \* history: cycle timestamps of the two most recent sends
    env,                \* names of the environment variables that are set
    configNames,        \* names the config module defines once executed
    capIn,              \* inputs of one capture_image call looked at alone
    capOut              \* what that call returned

runVars == <<pc, clock, now, image, status, msg, results, person_found,
             last_discord_send, kumaConfigured, discordConfigured, disk,
             payload, sendOutcome, events, failRun, runAtHeartbeat, sendClock,
             sendNow>>
startVars == <<env, configNames>>
capVars == <<capIn, capOut>>
vars == <<runVars, startVars, capVars>>

Has(e) == \E i \in 1..Len(events) : events[i] = e
Count(e) == Cardinality({i \in 1..Len(events) : events[i] = e})
Push(hist, x) == IF Len(hist) < 2 THEN Append(hist, x) ELSE <<hist[2], x>>

\* ---------------------------------------------------------------- methods

\* capture_image: any exception (transport error, error status, rotating an
\* undecodable frame) is caught and None returned; cv2.imdecode itself
\* returns None for undecodable bytes.
capture_image(fetch) == IF fetch = "ok" THEN RawImage ELSE NoneImage

\* run, lines 150-157: the branch on "image is None".
AfterCapture_NoNoneCheck(img) == "save"
AfterCapture(img) == IF ~img.valid THEN "kuma" ELSE "save"

\* run, lines 151-155.
StatusOf_AlwaysUp(img) == "up"
StatusOf(img) == IF ~img.valid THEN "down" ELSE "up"
MsgOf(img) == IF ~img.valid THEN "Image capture failed" ELSE "OK"

\* process_image, lines 101-110: boxes of class 0 are drawn onto the frame
\* passed in (in place), and person_found is set when there is one.
PersonBoxes(res) == {i \in 1..Len(res) : res[i] = PERSON}
process_image_NoDrawing(img, res) ==
    [image |-> img, person_found |-> PersonBoxes(res) # {}]
process_image(img, res) ==
    [image |-> [img EXCEPT !.overlays = @ \cup PersonBoxes(res)],
     person_found |-> PersonBoxes(res) # {}]

\* run, line 160: the throttle condition.
ThrottleAllows_Strict(t, last) == (t - last) > DISCORD_INTERVAL_MINUTES * 60
ThrottleAllows_Minutes(t, last) == (t - last) >= DISCORD_INTERVAL_MINUTES
ThrottleAllows(t, last) == (t - last) >= DISCORD_INTERVAL_MINUTES * 60

\* send_discord_image, lines 127-141: what the call does; it never raises.
send_discord_image(configured, encoded, posted) ==
    IF ~configured THEN "skipped"
    ELSE IF ~encoded THEN "encode_error"
    ELSE IF ~posted THEN "http_error"
    ELSE "delivered"

\* push_kuma, lines 76-83: what the call does; the URL is built and the
\* request made inside the try, so nothing is raised to the caller.
push_kuma_Uncaught(configured, got) ==
    IF ~configured THEN "skipped"
    ELSE IF ~got THEN "raised"
    ELSE "pinged"
push_kuma(configured, got) ==
    IF ~configured THEN "skipped"
    ELSE IF ~got THEN "error"
    ELSE "pinged"

\* run, lines 164-165: the sleep follows the call unless the call raised,
\* which would leave run.
AfterKuma(outcome) == IF outcome = "raised" THEN "crashed" ELSE "sleep"

\* run, lines 157-159: detection follows the save.
AfterSave_SkipDetection == "gate"
AfterSave_OnlyWhenSendAllowed ==
    IF (now - last_discord_send) >= DISCORD_INTERVAL_MINUTES * 60
        THEN "process" ELSE "gate"
AfterSave == "process"

\* ---------------------------------------------------------------- run

\* ---- start-up: config.py is executed, then monitor.py binds names from it

\* The environment variables config.py reads (lines 3-23), and the one
\* more name monitor.py asks for.
EnvNames ==
    {"KUMA_URL", "DISCORD_WEBHOOK_URL", "CAMERA_CAPTURE_URL", "CAMERA_ROTATION",
     "IMAGE_SAVE_FOLDER", "YOLO_MODEL_PATH", "LOG_FILE",
     "CAPTURE_INTERVAL_SECONDS", "YOLO_PROCESS_EVERY_N", "FAILURE_THRESHOLD",
     "REQUEST_TIMEOUT", "DISCORD_INTERVAL_MINUTES", "SAVE_INTERVAL_MINUTES"}

\* The names config.py assigns (lines 3-23): every one is assigned whether
\* or not its environment variable is set (os.getenv gives None or a default).
ConfigDefined ==
    {"KUMA_URL", "DISCORD_WEBHOOK_URL", "CAMERA_CAPTURE_URL", "CAMERA_ROTATION",
     "IMAGE_SAVE_FOLDER", "YOLO_MODEL_PATH", "LOG_FILE",
     "CAPTURE_INTERVAL_SECONDS", "YOLO_PROCESS_EVERY_N", "FAILURE_THRESHOLD",
     "REQUEST_TIMEOUT", "DISCORD_INTERVAL_MINUTES"}

\* The names of "from config import (...)", monitor.py lines 8-20.
ImportedNames ==
    {"KUMA_URL", "DISCORD_WEBHOOK_URL", "CAMERA_CAPTURE_URL", "CAMERA_ROTATION",
     "IMAGE_SAVE_FOLDER", "YOLO_MODEL_PATH", "CAPTURE_INTERVAL_SECONDS",
     "SAVE_INTERVAL_MINUTES", "DISCORD_INTERVAL_MINUTES", "REQUEST_TIMEOUT",
     "LOG_FILE"}

\* ---- capture_image with the frame's dimensions

\* Largest width and height of a decoded frame.
MaxDim == 3
\* Values of CAMERA_ROTATION (config.py line 9 takes any integer).
Rotations == {-90, 0, 45, 90, 180, 270, 360}

NoFrame == [valid |-> FALSE, raised |-> FALSE, w |-> 0, h |-> 0]
RaisedFrame == [valid |-> FALSE, raised |-> TRUE, w |-> 0, h |-> 0]
Frame(w, h) == [valid |-> TRUE, raised |-> FALSE, w |-> w, h |-> h]

CaptureInputs ==
    [fetch : FetchOutcomes, w : 1..MaxDim, h : 1..MaxDim, rotation : Rotations]
DefaultCapture == [fetch |-> "ok", w |-> 1, h |-> 1, rotation |-> 0]
Pending == [done |-> FALSE, frame |-> NoFrame]

\* lines 51-54: a transport error or error status raises; cv2.imdecode
\* returns None for bytes that are no image.
fetch_and_decode(fetch, w, h) ==
    IF fetch = "http_error" THEN RaisedFrame
    ELSE IF fetch = "undecodable" THEN NoFrame
    ELSE Frame(w, h)

\* cv2.rotate: raises on None; a quarter turn swaps width and height.
cv2_rotate(f, code) ==
    IF ~f.valid THEN RaisedFrame
    ELSE IF code \in {"ROTATE_90_CLOCKWISE", "ROTATE_90_COUNTERCLOCKWISE"}
        THEN Frame(f.h, f.w)
    ELSE f

\* lines 56-61: the if / elif chain on CAMERA_ROTATION.
rotate_configured_Mod360(f, rot) ==
    IF rot % 360 = 90 THEN cv2_rotate(f, "ROTATE_90_CLOCKWISE")
    ELSE IF rot % 360 = 180 THEN cv2_rotate(f, "ROTATE_180")
    ELSE IF rot % 360 = 270 THEN cv2_rotate(f, "ROTATE_90_COUNTERCLOCKWISE")
    ELSE f
rotate_configured(f, rot) ==
    IF rot = 90 THEN cv2_rotate(f, "ROTATE_90_CLOCKWISE")
    ELSE IF rot = 180 THEN cv2_rotate(f, "ROTATE_180")
    ELSE IF rot = 270 THEN cv2_rotate(f, "ROTATE_90_COUNTERCLOCKWISE")
    ELSE f

\* lines 50-66: the try / except around all of it turns a raise into None.
capture_frame(fetch, w, h, rot) ==
    LET decoded == fetch_and_decode(fetch, w, h)
        rotated == IF decoded.raised THEN decoded
                   ELSE rotate_configured(decoded, rot)
    IN  IF rotated.raised THEN NoFrame ELSE rotated

\* run, line 162: the value stored in self.last_discord_send is the cycle's
\* now, not a fresh reading of the clock.
RecordValue_FreshClock == clock
RecordValue == now

\* ---------------------------------------------------------------- run

\* run's locals and the history variables before the first cycle.
InitLocals ==
    /\ clock = 0
    /\ now = 0
    /\ image = NoneImage
    /\ status = "unset"
    /\ msg = "unset"
    /\ results = <<>>
    /\ person_found = FALSE
    /\ last_discord_send = DatetimeMin
    /\ disk = <<>>
    /\ payload = <<>>
    /\ sendOutcome = "none"
    /\ events = <<>>
    /\ failRun = 0
    /\ runAtHeartbeat = 0
    /\ sendClock = <<>>
    /\ sendNow = <<>>

\* The monitor constructed and run entered, for either setting of the two
\* endpoints.
Init ==
    /\ pc = "loop"
    /\ InitLocals
    /\ env \in SUBSET {"KUMA_URL", "DISCORD_WEBHOOK_URL"}
    /\ kumaConfigured = ("KUMA_URL" \in env)
    /\ discordConfigured = ("DISCORD_WEBHOOK_URL" \in env)
    /\ configNames = ConfigDefined
    /\ capIn = DefaultCapture
    /\ capOut = Pending

\* line 148: now = datetime.datetime.now()
BeginCycle ==
    /\ pc = "loop"
    /\ clock <= MaxTime
    /\ now' = clock
    /\ events' = <<>>
    /\ disk' = <<>>
    /\ payload' = <<>>
    /\ pc' = "capture"
    /\ UNCHANGED <<clock, image, status, msg, results, person_found,
                   last_discord_send, kumaConfigured, discordConfigured,
                   sendOutcome, failRun, runAtHeartbeat, sendClock, sendNow>>
    /\ UNCHANGED <<startVars, capVars>>

\* lines 149-155: image = self.capture_image(); status and msg are set.
CaptureImage ==
    /\ pc = "capture"
    /\ \E fetch \in FetchOutcomes, d \in CaptureDurations :
          /\ image' = capture_image(fetch)
          /\ clock' = clock + d
    /\ status' = StatusOf(image')
    /\ msg' = MsgOf(image')
    /\ pc' = AfterCapture(image')
    /\ events' = Append(events, IF image'.valid THEN "capture_ok" ELSE "capture_failed")
    /\ failRun' = IF image'.valid THEN 0 ELSE failRun + 1
    /\ UNCHANGED <<now, results, person_found, last_discord_send,
                   kumaConfigured, discordConfigured, disk, payload,
                   sendOutcome, runAtHeartbeat, sendClock, sendNow>>
    /\ UNCHANGED <<startVars, capVars>>

\* line 157: self.save_image(image) writes the frame as it is now.
SaveImage ==
    /\ pc = "save"
    /\ disk' = Append(disk, image.overlays)
    /\ events' = Append(events, "save")
    /\ pc' = AfterSave
    /\ UNCHANGED <<clock, now, image, status, msg, results, person_found,
                   last_discord_send, kumaConfigured, discordConfigured,
                   payload, sendOutcome, failRun, runAtHeartbeat, sendClock,
                   sendNow>>
    /\ UNCHANGED <<startVars, capVars>>

\* line 159: self.process_image(image) returns.
ProcessImage ==
    /\ pc = "process"
    /\ \E res \in ResultSets, d \in InferenceDurations :
          /\ results' = res
          /\ clock' = clock + d
          /\ image' = process_image(image, res).image
          /\ person_found' = process_image(image, res).person_found
    /\ events' = IF person_found' THEN events \o <<"detect", "annotate">>
                                  ELSE Append(events, "detect")
    /\ pc' = "gate"
    /\ UNCHANGED <<now, status, msg, last_discord_send, kumaConfigured,
                   discordConfigured, disk, payload, sendOutcome, failRun,
                   runAtHeartbeat, sendClock, sendNow>>
    /\ UNCHANGED <<startVars, capVars>>

\* line 95 raises inside process_image: nothing in process_image or run
\* catches it, so it leaves run and the process ends.
ProcessImageRaises ==
    /\ pc = "process"
    /\ \E d \in InferenceDurations : clock' = clock + d
    /\ events' = Append(events, "detect_raised")
    /\ pc' = "crashed"
    /\ UNCHANGED <<now, image, status, msg, results, person_found,
                   last_discord_send, kumaConfigured, discordConfigured, disk,
                   payload, sendOutcome, failRun, runAtHeartbeat, sendClock,
                   sendNow>>
    /\ UNCHANGED <<startVars, capVars>>

\* line 160: the condition of the if.
Gate ==
    /\ pc = "gate"
    /\ pc' = IF person_found /\ ThrottleAllows(now, last_discord_send)
                THEN "send" ELSE "kuma"
    /\ UNCHANGED <<clock, now, image, status, msg, results, person_found,
                   last_discord_send, kumaConfigured, discordConfigured, disk,
                   payload, sendOutcome, events, failRun, runAtHeartbeat,
                   sendClock, sendNow>>
    /\ UNCHANGED <<startVars, capVars>>

\* line 161: self.send_discord_image(processed_image)
SendDiscordImage ==
    /\ pc = "send"
    /\ \E encoded \in BOOLEAN, posted \in BOOLEAN :
          sendOutcome' = send_discord_image(discordConfigured, encoded, posted)
    /\ payload' = Append(payload, image.overlays)
    /\ events' = Append(events, "send")
    /\ sendClock' = Push(sendClock, clock)
    /\ sendNow' = Push(sendNow, now)
    /\ pc' = "record"
    /\ UNCHANGED <<clock, now, image, status, msg, results, person_found,
                   last_discord_send, kumaConfigured, discordConfigured, disk,
                   failRun, runAtHeartbeat>>
    /\ UNCHANGED <<startVars, capVars>>

\* line 162: self.last_discord_send = now
RecordSend ==
    /\ pc = "record"
    /\ last_discord_send' = RecordValue
    /\ pc' = "kuma"
    /\ UNCHANGED <<clock, now, image, status, msg, results, person_found,
                   kumaConfigured, discordConfigured, disk, payload,
                   sendOutcome, events, failRun, runAtHeartbeat, sendClock,
                   sendNow>>
    /\ UNCHANGED <<startVars, capVars>>

\* line 164: self.push_kuma(status, msg)
PushKuma ==
    /\ pc = "kuma"
    /\ \E got \in BOOLEAN :
          /\ events' = Append(events, "kuma_" \o status \o "_" \o push_kuma(kumaConfigured, got))
          /\ pc' = AfterKuma(push_kuma(kumaConfigured, got))
    /\ runAtHeartbeat' = failRun
    /\ failRun' = IF status = "down" THEN 0 ELSE failRun
    /\ UNCHANGED <<clock, now, image, status, msg, results, person_found,
                   last_discord_send, kumaConfigured, discordConfigured, disk,
                   payload, sendOutcome, sendClock, sendNow>>
    /\ UNCHANGED <<startVars, capVars>>

\* line 165: time.sleep(CAPTURE_INTERVAL_SECONDS), then the next iteration.
Sleep ==
    /\ pc = "sleep"
    /\ clock' = clock + CAPTURE_INTERVAL_SECONDS
    /\ events' = Append(events, "sleep")
    /\ pc' = "loop"
    /\ UNCHANGED <<now, image, status, msg, results, person_found,
                   last_discord_send, kumaConfigured, discordConfigured, disk,
                   payload, sendOutcome, failRun, runAtHeartbeat, sendClock,
                   sendNow>>
    /\ UNCHANGED <<startVars, capVars>>

Next ==
    \/ BeginCycle
    \/ CaptureImage
    \/ SaveImage
    \/ ProcessImage
    \/ ProcessImageRaises
    \/ Gate
    \/ SendDiscordImage
    \/ RecordSend
    \/ PushKuma
    \/ Sleep

Spec == Init /\ [][Next]_vars

\* ---------------------------------------------------------------- start-up

\* The process is started in some environment; nothing is imported yet.
InitStartup ==
    /\ pc = "start"
    /\ InitLocals
    /\ env \in SUBSET EnvNames
    /\ kumaConfigured = FALSE
    /\ discordConfigured = FALSE
    /\ configNames = {}
    /\ capIn = DefaultCapture
    /\ capOut = Pending

\* "from config import" first executes config.py (lines 1-23).
LoadConfig ==
    /\ pc = "start"
    /\ configNames' = ConfigDefined
    /\ kumaConfigured' = ("KUMA_URL" \in env)
    /\ discordConfigured' = ("DISCORD_WEBHOOK_URL" \in env)
    /\ pc' = "config_loaded"
    /\ UNCHANGED <<clock, now, image, status, msg, results, person_found,
                   last_discord_send, disk, payload, sendOutcome, events,
                   failRun, runAtHeartbeat, sendClock, sendNow, env, capVars>>

\* monitor.py lines 8-20 then bind each listed name; a name the module
\* lacks raises ImportError, and the process ends before __main__.
BindConfig ==
    /\ pc = "config_loaded"
    /\ pc' = IF ImportedNames \subseteq configNames THEN "loop" ELSE "import_error"
    /\ UNCHANGED <<clock, now, image, status, msg, results, person_found,
                   last_discord_send, kumaConfigured, discordConfigured, disk,
                   payload, sendOutcome, events, failRun, runAtHeartbeat,
                   sendClock, sendNow, startVars, capVars>>

NextStartup ==
    \/ LoadConfig
    \/ BindConfig

SpecStartup == InitStartup /\ [][NextStartup]_vars

\* ---------------------------------------------------------------- one capture

InitCapture ==
    /\ pc = "capture"
    /\ InitLocals
    /\ env = {}
    /\ kumaConfigured = FALSE
    /\ discordConfigured = FALSE
    /\ configNames = ConfigDefined
    /\ capIn \in CaptureInputs
    /\ capOut = Pending

\* One call of capture_image on the drawn response and rotation.
ApplyCapture ==
    /\ ~capOut.done
    /\ capOut' = [done |-> TRUE,
                  frame |-> capture_frame(capIn.fetch, capIn.w, capIn.h, capIn.rotation)]
    /\ UNCHANGED <<runVars, startVars, capIn>>

NextCapture == ApplyCapture

SpecCapture == InitCapture /\ [][NextCapture]_vars

\* ---------------------------------------------------------------- properties

Interval == DISCORD_INTERVAL_MINUTES * 60
KumaOutcomes == {"skipped", "error", "pinged"}
KumaEvents(s) == {"kuma_" \o s \o "_" \o o : o \in KumaOutcomes}
\* push_kuma was called with status s in this cycle.
Reported(s) == \E e \in KumaEvents(s) : Has(e)
\* A heartbeat with status s went out (or was tried) in this cycle.
Emitted(s) == Has("kuma_" \o s \o "_pinged") \/ Has("kuma_" \o s \o "_error")

\* C1: a "down" heartbeat is emitted in a cycle exactly when the capture
\* failed and it is the FAILURE_THRESHOLD-th consecutive failure since the
\* last reset, and the failure counter is below the threshold afterwards.
C1_DownExactlyAtThreshold ==
    (pc = "sleep" /\ kumaConfigured) =>
        /\ Emitted("down") <=> (~image.valid /\ runAtHeartbeat = FAILURE_THRESHOLD)
        /\ failRun < FAILURE_THRESHOLD

\* C2 (as stated): two notification sends are at least the interval apart
\* on the wall clock read when each send is performed.
C2_SendsIntervalApartWallClock ==
    Len(sendClock) = 2 => sendClock[2] - sendClock[1] >= Interval

\* C2 (amended): two notification sends are made in cycles whose timestamps
\* (now, read at the top of the cycle) are at least the interval apart.
C2_SendsIntervalApartCycleTime ==
    Len(sendNow) = 2 => sendNow[2] - sendNow[1] >= Interval

\* Two sends, performed less than the interval apart on the wall clock.
C2_Witness ==
    /\ Len(sendNow) = 2
    /\ sendClock[2] - sendClock[1] < Interval

\* C3: the throttle timestamp changes only in a cycle whose send delivered.
C3_TimestampOnlyOnDelivery ==
    [][last_discord_send' # last_discord_send => sendOutcome = "delivered"]_vars

\* C4: a cycle whose capture succeeded reports "up" whatever happens later
\* in the cycle, and the failure counter is 0 afterwards.
C4_UpOnEverySuccess ==
    (pc \in {"loop", "crashed"} /\ Has("capture_ok")) =>
        (Reported("up") /\ failRun = 0)

\* C5: a cycle whose capture succeeded persists the frame exactly once; a
\* cycle whose capture failed persists, detects, annotates and sends nothing.
C5_PersistOncePerSuccess ==
    /\ Count("save") <= 1
    /\ Len(disk) = Count("save")
    /\ (Has("capture_ok") /\ pc # "save") => Count("save") = 1
    /\ Has("capture_failed") =>
          /\ ~Has("save") /\ ~Has("detect") /\ ~Has("detect_raised")
          /\ ~Has("annotate") /\ ~Has("send")
          /\ pc \in {"kuma", "sleep", "loop"}

\* A finished cycle that captured, found a person, sent, and saved once.
C5_Witness ==
    /\ pc = "loop" /\ Has("capture_ok") /\ Has("annotate") /\ Has("send")
    /\ Count("save") = 1

\* C6: a raising detection model is caught: nothing is sent and the cycle
\* goes on to its heartbeat and sleep.
C6_DetectionErrorCaught ==
    Has("detect_raised") => (pc \in {"kuma", "sleep", "loop"} /\ ~Has("send"))

\* C7: no error ends the loop: run has no position it cannot leave.
C7_LoopNeverTerminates == pc # "crashed"

\* C8: the file written holds the frame without overlays, and the image
\* handed to the send holds the overlay of every person box of the cycle.
C8_RawSavedAnnotatedSent ==
    /\ \A i \in 1..Len(disk) : disk[i] = {}
    /\ \A i \in 1..Len(payload) :
          payload[i] = PersonBoxes(results) /\ payload[i] # {}

\* A cycle that saved the raw frame and sent one with an overlay, where
\* the model also returned a box that is no person.
C8_Witness ==
    /\ disk = <<{}>>
    /\ Len(payload) = 1 /\ payload[1] # {}
    /\ \E i \in 1..Len(results) : results[i] # PERSON

\* C9: a send is attempted in a cycle exactly when the capture succeeded, a
\* person was found, and the recorded timestamp is the never-sent value or
\* at least the interval before the cycle's now.
C9_SendIffGateOpen ==
    LET Allowed == \/ last_discord_send = DatetimeMin
                   \/ now - last_discord_send >= Interval
    IN  /\ pc = "send" => (image.valid /\ person_found /\ Allowed)
        /\ Has("send") => (Has("capture_ok") /\ person_found)
        /\ (pc \in {"kuma", "sleep"} /\ ~Has("send")) =>
              ~(Has("capture_ok") /\ person_found /\ Allowed)

\* A send about to be made exactly one interval after the recorded one.
C9_Witness ==
    /\ pc = "send"
    /\ now - last_discord_send = Interval

\* The position of a step in the order a claim gives; k is the place of the
\* heartbeat.
Rank(e, k) ==
    IF e \in {"capture_ok", "capture_failed"} THEN 0
    ELSE IF e = "save" THEN 2
    ELSE IF e \in {"detect", "detect_raised"} THEN 3
    ELSE IF e = "annotate" THEN 4
    ELSE IF e = "send" THEN 5
    ELSE IF e = "sleep" THEN 7
    ELSE k
Ordered(k) ==
    \A i, j \in 1..Len(events) : i < j => Rank(events[i], k) < Rank(events[j], k)
Complete ==
    (Has("sleep") /\ Has("capture_ok")) =>
        (Has("save") /\ Has("detect") /\ Reported("up"))

C11_HeartbeatChangesNothing ==
    [][pc = "kuma" =>
          /\ pc' = "sleep"
          /\ UNCHANGED <<last_discord_send, status, msg, now, image, results,
                         person_found, kumaConfigured, discordConfigured>>]_vars

\* A cycle at its sleep after a heartbeat request that failed.
C11_Witness ==
    /\ pc = "sleep"
    /\ Has("kuma_up_error") \/ Has("kuma_down_error")

\* C12: capture_image returns a frame of dimensions (h, w) for a rotation
\* of 90 or 270 and (w, h) for 0, 180 or any other integer; a response
\* that cannot be decoded gives None under every rotation, and nothing is
\* raised out of capture_image.
C12_RotationDimensions ==
    capOut.done =>
        /\ ~capOut.frame.raised
        /\ capIn.fetch = "ok" =>
              /\ capOut.frame.valid
              /\ IF capIn.rotation \in {90, 270}
                    THEN capOut.frame.w = capIn.h /\ capOut.frame.h = capIn.w
                    ELSE capOut.frame.w = capIn.w /\ capOut.frame.h = capIn.h
        /\ capIn.fetch # "ok" => capOut.frame = NoFrame

\* A frame that is not square, returned turned by a quarter.
C12_Witness ==
    /\ capOut.done /\ capIn.fetch = "ok" /\ capIn.rotation = 90
    /\ capIn.w # capIn.h
    /\ capOut.frame.w = capIn.h /\ capOut.frame.h = capIn.w

Detections == Count("detect") + Count("detect_raised")

AllKumaEvents == KumaEvents("up") \cup KumaEvents("down")
KumaPositions == {i \in 1..Len(events) : events[i] \in AllKumaEvents}

C15_TimestampFrame ==
    [][last_discord_send' # last_discord_send =>
          /\ Has("capture_ok") /\ person_found /\ Has("send")
          /\ now - last_discord_send >= Interval
          /\ last_discord_send' = now
          /\ last_discord_send' > last_discord_send
          /\ last_discord_send' <= sendClock[Len(sendClock)]]_vars

\* A timestamp recorded that is earlier than the moment of its send.
C15_Witness ==
    /\ pc = "kuma" /\ Has("send")
    /\ last_discord_send = now
    /\ last_discord_send < sendClock[Len(sendClock)]

\* C16: start-up gets to the monitor loop: every name monitor.py binds
\* from config is defined there, so binding never fails.
C16_StartupReachesLoop ==
    /\ pc # "import_error"
    /\ pc = "config_loaded" => ImportedNames \subseteq configNames

====
